---------------------------- MODULE Spec2Model ----------------------------
(***************************************************************************)
(* A model of json5/lib.py: the _Encoder and _Decoder classes and the      *)
(* module-level dumps/loads functions.                                     *)
(*                                                                         *)
(* Characters are their code points (ord), texts are sequences of code     *)
(* points.  Native values are tagged records; lists and dicts live in a    *)
(* heap indexed by object identity (id), so that a container can contain   *)
(* itself and can be shared.  The model follows the Python 3 reading of    *)
(* the source (_is_python2 false).                                         *)
(***************************************************************************)
EXTENDS Integers, Sequences, FiniteSets, TLC

(***************************************************************************)
(* Bounds of the model.                                                    *)
(***************************************************************************)
\* Number of container objects (identities) of a value graph.
NObj == 2
\* Longest list / largest dict of the value graphs handed to the encoder.
MaxLen == 2
\* The interpreter's recursion limit (sys.getrecursionlimit()), scaled down.
RecursionLimit == 3
\* Cap of the encoder's _indent_level counter.
MaxIndentLevel == 3

(***************************************************************************)
(* Characters and text literals of the source.                             *)
(***************************************************************************)
squote == 39
dquote == 34
bslash == 92

\* ', ' and ': ' (the default separators), ',' and ':' (a caller's choice)
DefaultSeparators == << <<44, 32>>, <<58, 32>> >>
TightSeparators == << <<44>>, <<58>> >>

TrueText == <<116, 114, 117, 101>>
FalseText == <<102, 97, 108, 115, 101>>
NullText == <<110, 117, 108, 108>>
InfinityText == <<73, 110, 102, 105, 110, 105, 116, 121>>
NaNText == <<78, 97, 78>>

IsDigit(c) == c >= 48 /\ c <= 57
IsAsciiLetter(c) == (c >= 65 /\ c <= 90) \/ (c >= 97 /\ c <= 122)
\* \w of the re module on a str pattern: letters, digits, underscore (the
\* non-ASCII letters of the alphabet used here, such as 233, are \w too).
IsWordChar(c) == IsAsciiLetter(c) \/ IsDigit(c) \/ c = 95 \/ c = 233

\* sub in s, for texts
Contains(sub, s) ==
    \E i \in 0..(Len(s) - Len(sub)) :
        \A j \in 1..Len(sub) : s[i + j] = sub[j]

StartsWith(s, pre) ==
    Len(s) >= Len(pre) /\ \A j \in 1..Len(pre) : s[j] = pre[j]

(***************************************************************************)
(* Native values.                                                          *)
(***************************************************************************)
VNull == [t |-> "null"]
VBool(b) == [t |-> "bool", v |-> b]
VInt(n) == [t |-> "int", v |-> n]
VStr(s) == [t |-> "str", v |-> s]
\* a float: k is "fin" (m * 10^e, m not a multiple of 10 unless 0), "nan",
\* "inf" or "ninf"
VFloat(k, m, e) == [t |-> "float", v |-> [k |-> k, m |-> m, e |-> e]]
\* a value of a type the encoder does not know (a tuple, a set, ...)
VOther(n) == [t |-> "other", v |-> n]
\* a reference to the container with identity i
VRef(i) == [t |-> "ref", v |-> i]
\* containers of the heap
VList(els) == [t |-> "list", els |-> els]
VDict(keys, vals) == [t |-> "dict", keys |-> keys, vals |-> vals]

\* type(obj) of an element: a reference has the type of its container
TypeOf(heap, obj) == IF obj.t = "ref" THEN heap[obj.v].t ELSE obj.t

(***************************************************************************)
(* _Encoder                                                                *)
(***************************************************************************)
\* self._valid_key_types
valid_key_types == {"str", "int", "float", "bool", "null"}

\* the result of a call: a returned text or a raised exception, with the
\* encoder fields the call leaves behind
Ret(s, seen, lvl) ==
    [ok |-> TRUE, s |-> s, err |-> "", seen |-> seen, lvl |-> lvl]
Raise(e, seen, lvl) ==
    [ok |-> FALSE, s |-> <<>>, err |-> e, seen |-> seen, lvl |-> lvl]

\* one lower-case hexadecimal digit
HexDigit(d) == IF d < 10 THEN 48 + d ELSE 87 + d

RECURSIVE HexText(_)
HexText(n) == IF n < 16 THEN <<HexDigit(n)>>
              ELSE HexText(n \div 16) \o <<HexDigit(n % 16)>>

RECURSIVE ZeroPad(_, _)
ZeroPad(s, w) == IF Len(s) >= w THEN s ELSE ZeroPad(<<48>> \o s, w)

\* '\\u%04x' % o
UEscape(o) == <<bslash, 117>> \o ZeroPad(HexText(o), 4)

\* _esc_char without regard for esc_squote and esc_dquote: both quotes are
\* escaped wherever they stand
esc_char_both(ch, esc_squote, esc_dquote) ==
    IF ch = dquote THEN <<bslash, dquote>>
    ELSE IF ch = squote THEN <<bslash, squote>>
    ELSE IF 32 <= ch /\ ch < 128 THEN <<ch>>
    ELSE UEscape(ch)

\* _Encoder._esc_char
esc_char(ch, esc_squote, esc_dquote) ==
    IF ch = dquote /\ esc_dquote THEN <<bslash, dquote>>
    ELSE IF ch = squote /\ esc_squote THEN <<bslash, squote>>
    ELSE IF 32 <= ch /\ ch < 128 THEN <<ch>>
    ELSE UEscape(ch)

RECURSIVE esc_chars(_, _, _)
esc_chars(s, esc_squote, esc_dquote) ==
    IF s = <<>> THEN <<>>
    ELSE esc_char(Head(s), esc_squote, esc_dquote)
             \o esc_chars(Tail(s), esc_squote, esc_dquote)

esc_str(cfg, s, esc_squote, esc_dquote) ==
    IF ~cfg.ensure_ascii THEN s
    ELSE esc_chars(s, esc_squote, esc_dquote)

\* the string branch of dumps
dumps_str(cfg, s) ==
    LET has_single_quote == \E i \in 1..Len(s) : s[i] = squote
    IN  IF ~has_single_quote
        THEN <<squote>> \o esc_str(cfg, s, TRUE, FALSE) \o <<squote>>
        ELSE <<dquote>> \o esc_str(cfg, s, FALSE, TRUE) \o <<dquote>>

\* _esc_key on a str key; self._notletter.search(k) is the \W test
esc_key(cfg, k) ==
    IF \E i \in 1..Len(k) : ~IsWordChar(k[i])
    THEN IF ~(\E i \in 1..Len(k) : k[i] = squote)
         THEN <<squote>> \o esc_str(cfg, k, TRUE, FALSE) \o <<squote>>
         ELSE <<dquote>> \o esc_str(cfg, k, FALSE, TRUE) \o <<dquote>>
    ELSE k

RECURSIVE NatText(_)
NatText(n) == IF n < 10 THEN <<48 + n>>
              ELSE NatText(n \div 10) \o <<48 + (n % 10)>>

\* str(obj) of an int
IntText(n) == IF n < 0 THEN <<45>> \o NatText(-n) ELSE NatText(n)


\* _Encoder.__init__'s keyword defaults
DefaultConfig ==
    [skipkeys |-> FALSE, ensure_ascii |-> TRUE, check_circular |-> TRUE,
     allow_nan |-> TRUE, indent |-> <<>>, separators |-> DefaultSeparators,
     default |-> "none", sort_keys |-> FALSE]

(***************************************************************************)
(* sorted(keys)                                                            *)
(***************************************************************************)
RECURSIVE Pow10(_)
Pow10(n) == IF n <= 0 THEN 1 ELSE 10 * Pow10(n - 1)

RECURSIVE StrLess(_, _)
StrLess(a, b) ==
    IF b = <<>> THEN FALSE
    ELSE IF a = <<>> THEN TRUE
    ELSE IF Head(a) # Head(b) THEN Head(a) < Head(b)
    ELSE StrLess(Tail(a), Tail(b))

\* str with str, numbers (int, bool, float) with numbers, tuples with
\* tuples; anything else has no '<' in Python 3
KeyClass(k) ==
    IF k.t = "str" THEN "str"
    ELSE IF k.t \in {"int", "bool"} THEN "num"
    ELSE IF k.t = "float" /\ k.v.k = "fin" THEN "num"
    ELSE IF k.t = "other" THEN "other"
    ELSE "none"

Comparable(a, b) == KeyClass(a) = KeyClass(b) /\ KeyClass(a) # "none"

\* a number key as mantissa and decimal exponent
NumM(k) == IF k.t = "int" THEN k.v
           ELSE IF k.t = "bool" THEN (IF k.v THEN 1 ELSE 0)
           ELSE k.v.m
NumE(k) == IF k.t = "float" THEN k.v.e ELSE 0

KeyLess(a, b) ==
    IF KeyClass(a) = "str" THEN StrLess(a.v, b.v)
    ELSE IF KeyClass(a) = "num"
    THEN LET lo == IF NumE(a) < NumE(b) THEN NumE(a) ELSE NumE(b)
         IN  NumM(a) * Pow10(NumE(a) - lo) < NumM(b) * Pow10(NumE(b) - lo)
    ELSE a.v < b.v

RECURSIVE InsertKey(_, _)
InsertKey(k, sortedKeys) ==
    IF sortedKeys = <<>> THEN <<k>>
    ELSE IF KeyLess(k, Head(sortedKeys)) THEN <<k>> \o sortedKeys
    ELSE <<Head(sortedKeys)>> \o InsertKey(k, Tail(sortedKeys))

RECURSIVE SortedKeys(_)
SortedKeys(keys) ==
    IF keys = <<>> THEN <<>>
    ELSE InsertKey(keys[Len(keys)], SortedKeys(SubSeq(keys, 1, Len(keys) - 1)))

\* whether sorted(keys) compares two keys that have no order (TypeError)
SortFails(keys) ==
    \E i, j \in 1..Len(keys) : i < j /\ ~Comparable(keys[i], keys[j])

\* obj[k]
DictGet(d, k) == d.vals[CHOOSE i \in 1..Len(d.keys) : d.keys[i] = k]

(***************************************************************************)
(* _Encoder.dumps: one recursive call per value, the encoder's             *)
(* _seen_objs (seen) and _indent_level (lvl) threaded through.  depth is   *)
(* the number of dumps frames on the stack.                                *)
(***************************************************************************)
RECURSIVE dumps_rec(_, _, _, _, _, _)
RECURSIVE dict_loop(_, _, _, _, _, _, _, _, _)
RECURSIVE list_loop(_, _, _, _, _, _, _, _)

\* s += self._esc_key(k) + self._colon + self.dumps(obj[k]), r what dumps
\* gave; if i < num_keys: s += self._comma + indent
dict_item(cfg, heap, d, keys, i, s, depth, r) ==
    IF ~r.ok THEN r
    ELSE dict_loop(cfg, heap, d, keys, i + 1,
                   s \o esc_key(cfg, keys[i].v) \o cfg.separators[2] \o r.s
                       \o (IF i - 1 < Len(keys) - 1 THEN cfg.separators[1] ELSE <<>>),
                   r.seen, r.lvl, depth)

\* for i, k in enumerate(keys): ... ; s += '}' ; self._indent_level -= 1
dict_loop(cfg, heap, d, keys, i, s, seen, lvl, depth) ==
    IF i > Len(keys) THEN Ret(s \o <<125>>, seen, lvl - 1)
    ELSE IF keys[i].t \notin valid_key_types
    THEN IF cfg.skipkeys
         THEN dict_loop(cfg, heap, d, keys, i + 1, s, seen, lvl, depth)
         ELSE Raise("TypeError:key", seen, lvl)
    \* self._notletter.search(k) on a key that is no string
    ELSE IF keys[i].t # "str" THEN Raise("TypeError:search", seen, lvl)
    ELSE dict_item(cfg, heap, d, keys, i, s, depth,
                   dumps_rec(cfg, heap, DictGet(d, keys[i]), seen, lvl, depth + 1))

\* s += self.dumps(el), r what dumps gave; if i < num_els: s += self._comma + indent
list_item(cfg, heap, l, i, s, depth, r) ==
    IF ~r.ok THEN r
    ELSE list_loop(cfg, heap, l, i + 1,
                   s \o r.s \o (IF i - 1 < Len(l.els) - 1
                                THEN cfg.separators[1] ELSE <<>>),
                   r.seen, r.lvl, depth)

\* for i, el in enumerate(obj): ... ; s += ']' ; self._indent_level -= 1
list_loop(cfg, heap, l, i, s, seen, lvl, depth) ==
    IF i > Len(l.els) THEN Ret(s \o <<93>>, seen, lvl - 1)
    ELSE list_item(cfg, heap, l, i, s, depth,
                   dumps_rec(cfg, heap, l.els[i], seen, lvl, depth + 1))

\* the dict and list branches after the circular check: seen has the
\* object's id if check_circular is set
dumps_container(cfg, heap, c, seen, lvl, depth) ==
    IF c.t = "dict" /\ cfg.sort_keys /\ SortFails(c.keys)
    THEN Raise("TypeError:sorted", seen, lvl)
    \* indent += ... on a local that was never assigned
    ELSE IF cfg.indent # <<>> THEN Raise("UnboundLocalError:indent", seen, lvl + 1)
    ELSE IF c.t = "dict"
    THEN dict_loop(cfg, heap, c, IF cfg.sort_keys THEN SortedKeys(c.keys) ELSE c.keys,
                   1, <<123>>, seen, lvl + 1, depth)
    ELSE list_loop(cfg, heap, c, 1, <<91>>, seen, lvl + 1, depth)

dumps_rec(cfg, heap, obj, seen, lvl, depth) ==
    IF depth > RecursionLimit THEN Raise("RecursionError", seen, lvl)
    ELSE IF TypeOf(heap, obj) = "bool"
    THEN Ret(IF obj.v THEN TrueText ELSE FalseText, seen, lvl)
    ELSE IF TypeOf(heap, obj) = "null" THEN Ret(NullText, seen, lvl)
    ELSE IF TypeOf(heap, obj) = "str" THEN Ret(dumps_str(cfg, obj.v), seen, lvl)
    \* math is not imported: whichever of math.isnan / math.isinf the
    \* condition reaches first raises NameError
    ELSE IF TypeOf(heap, obj) = "float" THEN Raise("NameError:math", seen, lvl)
    ELSE IF TypeOf(heap, obj) = "int" THEN Ret(IntText(obj.v), seen, lvl)
    ELSE IF TypeOf(heap, obj) \in {"dict", "list"}
    THEN IF cfg.check_circular /\ obj.v \in seen
         THEN Raise("ValueError:circular", seen, lvl)
         ELSE dumps_container(cfg, heap, heap[obj.v],
                              IF cfg.check_circular THEN seen \cup {obj.v} ELSE seen,
                              lvl, depth)
    \* self._default(obj): the built-in fallback, which raises
    ELSE Raise("TypeError:default", seen, lvl)

(***************************************************************************)
(* _Decoder: the parsers of number literals                                *)
(***************************************************************************)
\* a parser's or the walk's result: a value or a raised exception
Val(v) == [ok |-> TRUE, v |-> v, err |-> ""]
Fail(e) == [ok |-> FALSE, v |-> VNull, err |-> e]

\* the value of a digit in a base, -1 for a character that is none
DigitVal(c, base) ==
    LET d == IF IsDigit(c) THEN c - 48
             ELSE IF c >= 97 /\ c <= 122 THEN c - 87
             ELSE IF c >= 65 /\ c <= 90 THEN c - 55
             ELSE 0 - 1
    IN  IF d < base THEN d ELSE 0 - 1

RECURSIVE DigitsValue(_, _)
DigitsValue(ds, base) ==
    IF ds = <<>> THEN 0
    ELSE DigitsValue(SubSeq(ds, 1, Len(ds) - 1), base) * base
             + DigitVal(ds[Len(ds)], base)

AllDigits(ds, base) ==
    ds # <<>> /\ \A j \in 1..Len(ds) : DigitVal(ds[j], base) >= 0

IsSign(c) == c = 43 \/ c = 45

\* a text without its leading sign, and the sign
Unsigned(lit) == IF lit # <<>> /\ IsSign(lit[1]) THEN Tail(lit) ELSE lit
SignOf(lit) == IF lit # <<>> /\ lit[1] = 45 THEN 0 - 1 ELSE 1

\* int(lit, base): a sign, with base 16 an optional 0x / 0X, then digits
int(lit, base) ==
    LET u == Unsigned(lit)
        ds == IF base = 16 /\ (StartsWith(u, <<48, 120>>) \/ StartsWith(u, <<48, 88>>))
              THEN SubSeq(u, 3, Len(u))
              ELSE u
    IN  IF AllDigits(ds, base) THEN Val(VInt(SignOf(lit) * DigitsValue(ds, base)))
        ELSE Fail("ValueError:int")

RECURSIVE Normalise(_, _)
Normalise(m, e) ==
    IF m = 0 THEN VFloat("fin", 0, 0)
    ELSE IF m % 10 = 0 THEN Normalise(m \div 10, e + 1)
    ELSE VFloat("fin", m, e)

\* the end of the run of decimal digits that starts at p
RECURSIVE DigitsEnd(_, _)
DigitsEnd(s, p) ==
    IF p <= Len(s) /\ IsDigit(s[p]) THEN DigitsEnd(s, p + 1) ELSE p

\* float(lit) of a decimal literal: sign, digits, '.', digits, exponent; and
\* of inf / nan (parse_constant hands those over)
float(lit) ==
    LET u == Unsigned(lit)
        sg == SignOf(lit)
        p1 == DigitsEnd(u, 1)
        ip == SubSeq(u, 1, p1 - 1)
        dot == p1 <= Len(u) /\ u[p1] = 46
        p2 == IF dot THEN DigitsEnd(u, p1 + 1) ELSE p1
        fp == IF dot THEN SubSeq(u, p1 + 1, p2 - 1) ELSE <<>>
        hasExp == p2 <= Len(u) /\ u[p2] \in {101, 69}
        ex == IF hasExp THEN SubSeq(u, p2 + 1, Len(u)) ELSE <<>>
        exOk == IF hasExp THEN AllDigits(Unsigned(ex), 10) ELSE p2 = Len(u) + 1
        exV == IF hasExp THEN SignOf(ex) * DigitsValue(Unsigned(ex), 10) ELSE 0
    IN  IF u = <<105, 110, 102>> THEN Val(VFloat(IF sg < 0 THEN "ninf" ELSE "inf", 0, 0))
        ELSE IF u = <<110, 97, 110>> THEN Val(VFloat("nan", 0, 0))
        ELSE IF (ip # <<>> \/ fp # <<>>) /\ exOk
        THEN Val(Normalise(sg * DigitsValue(ip \o fp, 10), exV - Len(fp)))
        ELSE Fail("ValueError:float")

\* s.replace(old, new), for an old that occurs at most once
Replace(s, old, new) ==
    IF Contains(old, s)
    THEN LET i == CHOOSE i \in 0..(Len(s) - Len(old)) :
                      \A j \in 1..Len(old) : s[i + j] = old[j]
         IN  SubSeq(s, 1, i) \o new \o SubSeq(s, i + Len(old) + 1, Len(s))
    ELSE s

\* _Decoder.parse_constant
parse_constant(lit) ==
    float(Replace(Replace(lit, InfinityText, <<105, 110, 102>>),
                  NaNText, <<110, 97, 110>>))

\* what a caller's hook returns: a record of the call
Hooked(by, arg, base) == [t |-> "hooked", by |-> by, arg |-> arg, base |-> base]

\* _Decoder.__init__'s keyword defaults: each option is "default" or "hook"
DefaultDecoder ==
    [parse_float |-> "default", parse_int |-> "default",
     parse_constant |-> "default", object_hook |-> "default",
     object_pairs_hook |-> "default"]

\* self.parse_int(node_val, base=16) and self.parse_int(node_val): base is
\* <<16>> or <<>>
call_parse_int(dcfg, lit, base) ==
    IF dcfg.parse_int = "hook" THEN Val(Hooked("parse_int", lit, base))
    ELSE int(lit, IF base = <<>> THEN 10 ELSE base[1])

call_parse_float(dcfg, lit) ==
    IF dcfg.parse_float = "hook" THEN Val(Hooked("parse_float", lit, <<>>))
    ELSE float(lit)

call_parse_constant(dcfg, lit) ==
    IF dcfg.parse_constant = "hook" THEN Val(Hooked("parse_constant", lit, <<>>))
    ELSE parse_constant(lit)

\* the number branch with the tests for '.', 'e' and 'E' ahead of the test
\* for the 0x / 0X prefix
walk_number_marks_first(dcfg, node_val) ==
    IF Contains(<<46>>, node_val) \/ Contains(<<101>>, node_val)
           \/ Contains(<<69>>, node_val)
    THEN call_parse_float(dcfg, node_val)
    ELSE IF StartsWith(node_val, <<48, 120>>) \/ StartsWith(node_val, <<48, 88>>)
    THEN call_parse_int(dcfg, node_val, <<16>>)
    ELSE IF Contains(InfinityText, node_val) \/ Contains(NaNText, node_val)
    THEN call_parse_constant(dcfg, node_val)
    ELSE call_parse_int(dcfg, node_val, <<>>)

\* the number branch of _Decoder.walk
walk_number(dcfg, node_val) ==
    IF StartsWith(node_val, <<48, 120>>) \/ StartsWith(node_val, <<48, 88>>)
    THEN call_parse_int(dcfg, node_val, <<16>>)
    ELSE IF Contains(<<46>>, node_val) \/ Contains(<<101>>, node_val)
              \/ Contains(<<69>>, node_val)
    THEN call_parse_float(dcfg, node_val)
    ELSE IF Contains(InfinityText, node_val) \/ Contains(NaNText, node_val)
    THEN call_parse_constant(dcfg, node_val)
    ELSE call_parse_int(dcfg, node_val, <<>>)

\* dict(pairs): a key keeps the place of its first pair and the value of its
\* last
RECURSIVE dict(_)
dict(pairs) ==
    IF pairs = <<>> THEN VDict(<<>>, <<>>)
    ELSE LET d == dict(SubSeq(pairs, 1, Len(pairs) - 1))
             k == VStr(pairs[Len(pairs)][1])
             v == pairs[Len(pairs)][2]
         IN  IF \E i \in 1..Len(d.keys) : d.keys[i] = k
             THEN VDict(d.keys, [i \in 1..Len(d.keys) |->
                                    IF d.keys[i] = k THEN v ELSE d.vals[i]])
             ELSE VDict(Append(d.keys, k), Append(d.vals, v))

\* self.object_pairs_hook, as __init__ sets it
object_pairs_hook(dcfg, pairs) ==
    IF dcfg.object_pairs_hook = "hook" THEN Hooked("object_pairs_hook", pairs, <<>>)
    ELSE IF dcfg.object_hook = "hook" THEN Hooked("object_hook", dict(pairs), <<>>)
    ELSE dict(pairs)

(***************************************************************************)
(* _Decoder.walk over a syntax tree.  A node is [nt, nv]: nv is the native *)
(* value of a null / true / false / string node, the literal of a number  *)
(* node, the <<key, node>> pairs of an object, the nodes of an array.      *)
(***************************************************************************)
Node(nt, nv) == [nt |-> nt, nv |-> nv]

RECURSIVE walk(_, _)
RECURSIVE walk_pairs(_, _, _, _)
RECURSIVE walk_els(_, _, _, _)

\* the pair (key, self.walk(val)), r what walk gave
walk_pair(dcfg, node_val, i, pairs, r) ==
    IF ~r.ok THEN r
    ELSE walk_pairs(dcfg, node_val, i + 1, Append(pairs, <<node_val[i][1], r.v>>))

\* pairs = [(key, self.walk(val)) for key, val in node_val]
\* return self.object_pairs_hook(pairs)
walk_pairs(dcfg, node_val, i, pairs) ==
    IF i > Len(node_val) THEN Val(object_pairs_hook(dcfg, pairs))
    ELSE walk_pair(dcfg, node_val, i, pairs, walk(dcfg, node_val[i][2]))

\* the element self.walk(el), r what walk gave
walk_el(dcfg, node_val, i, els, r) ==
    IF ~r.ok THEN r ELSE walk_els(dcfg, node_val, i + 1, Append(els, r.v))

\* [self.walk(el) for el in node_val]
walk_els(dcfg, node_val, i, els) ==
    IF i > Len(node_val) THEN Val(VList(els))
    ELSE walk_el(dcfg, node_val, i, els, walk(dcfg, node_val[i]))

walk(dcfg, ast_node) ==
    IF ast_node.nt \in {"null", "true", "false", "string"} THEN Val(ast_node.nv)
    ELSE IF ast_node.nt = "number" THEN walk_number(dcfg, ast_node.nv)
    ELSE IF ast_node.nt = "object" THEN walk_pairs(dcfg, ast_node.nv, 1, <<>>)
    ELSE IF ast_node.nt = "array" THEN walk_els(dcfg, ast_node.nv, 1, <<>>)
    ELSE Fail("Exception:unknown ast node")

(***************************************************************************)
(* The parser (json5/parser.py, Parser.parse): text to syntax tree, after  *)
(* the relaxed format's grammar.  Comments are left out.                   *)
(***************************************************************************)
Parsed(node, pos) == [ok |-> TRUE, node |-> node, pos |-> pos]
NoParse == [ok |-> FALSE, node |-> Node("null", VNull), pos |-> 0]

IsWs(c) == c \in {9, 10, 13, 32}

RECURSIVE SkipWs(_, _)
SkipWs(txt, p) ==
    IF p <= Len(txt) /\ IsWs(txt[p]) THEN SkipWs(txt, p + 1) ELSE p

IsIdStart(c) == IsAsciiLetter(c) \/ c = 95 \/ c = 36 \/ c = 233
IsIdPart(c) == IsIdStart(c) \/ IsDigit(c)
IsNumChar(c) == IsDigit(c) \/ IsAsciiLetter(c) \/ c = 46 \/ IsSign(c)

RECURSIVE RunEnd(_, _, _)
\* the end of the run of identifier (kind 1) or number (kind 2) characters
RunEnd(txt, p, kind) ==
    IF p <= Len(txt) /\ (IF kind = 1 THEN IsIdPart(txt[p]) ELSE IsNumChar(txt[p]))
    THEN RunEnd(txt, p + 1, kind)
    ELSE p

\* a decimal literal without sign: 0 or a number without leading zero, a
\* fraction, an exponent; or a fraction alone
IsDecimal(u) ==
    LET p1 == DigitsEnd(u, 1)
        dot == p1 <= Len(u) /\ u[p1] = 46
        p2 == IF dot THEN DigitsEnd(u, p1 + 1) ELSE p1
        hasExp == p2 <= Len(u) /\ u[p2] \in {101, 69}
        ex == SubSeq(u, p2 + 1, Len(u))
    IN  /\ p1 > 1 \/ (dot /\ p2 > p1 + 1)
        /\ p1 > 2 => u[1] # 48
        /\ IF hasExp THEN AllDigits(Unsigned(ex), 10) ELSE p2 = Len(u) + 1

\* a number literal of the format
IsNumberLiteral(lit) ==
    LET u == Unsigned(lit)
    IN  \/ u = InfinityText
        \/ u = NaNText
        \/ /\ StartsWith(u, <<48, 120>>) \/ StartsWith(u, <<48, 88>>)
           /\ AllDigits(SubSeq(u, 3, Len(u)), 16)
        \/ IsDecimal(u)

\* the character an escape letter stands for
EscapeOf(c) ==
    IF c = 110 THEN 10 ELSE IF c = 116 THEN 9 ELSE IF c = 114 THEN 13
    ELSE IF c = 98 THEN 8 ELSE IF c = 102 THEN 12 ELSE IF c = 118 THEN 11
    ELSE IF c = 48 THEN 0 ELSE c

RECURSIVE ParseString(_, _, _, _)
\* the rest of a string that opened with the quote q, acc its characters
ParseString(txt, p, q, acc) ==
    IF p > Len(txt) \/ txt[p] \in {10, 13} THEN NoParse
    ELSE IF txt[p] = q THEN Parsed(Node("string", VStr(acc)), p + 1)
    ELSE IF txt[p] # bslash THEN ParseString(txt, p + 1, q, Append(acc, txt[p]))
    ELSE IF p + 1 > Len(txt) THEN NoParse
    ELSE LET e == txt[p + 1]
             n == IF e = 117 THEN 4 ELSE 2
             hex == SubSeq(txt, p + 2, p + 1 + n)
         IN  IF e \in {117, 120}
             THEN IF Len(hex) = n /\ AllDigits(hex, 16)
                  THEN ParseString(txt, p + 2 + n, q,
                                   Append(acc, DigitsValue(hex, 16)))
                  ELSE NoParse
             ELSE IF e = 10 THEN ParseString(txt, p + 2, q, acc)
             ELSE IF e >= 49 /\ e <= 57 THEN NoParse
             ELSE ParseString(txt, p + 2, q, Append(acc, EscapeOf(e)))

RECURSIVE ParseValue(_, _)
RECURSIVE ParseMembers(_, _, _)
RECURSIVE ParseElements(_, _, _)

\* after a member, at p: a comma and more members, or the closing brace
MemberNext(txt, pairs, p) ==
    IF p > Len(txt) THEN NoParse
    ELSE IF txt[p] = 44 THEN ParseMembers(txt, p + 1, pairs)
    ELSE IF txt[p] = 125 THEN Parsed(Node("object", pairs), p + 1)
    ELSE NoParse

\* the member's value v, parsed
MemberEnd(txt, pairs, key, v) ==
    IF ~v.ok THEN NoParse
    ELSE MemberNext(txt, Append(pairs, <<key, v.node>>), SkipWs(txt, v.pos))

\* after the member's key, at p: the colon and the value
MemberValue(txt, pairs, key, p) ==
    IF p > Len(txt) \/ txt[p] # 58 THEN NoParse
    ELSE MemberEnd(txt, pairs, key, ParseValue(txt, SkipWs(txt, p + 1)))

\* the member's key k, parsed
MemberColon(txt, pairs, k) ==
    IF ~k.ok THEN NoParse
    ELSE MemberValue(txt, pairs, k.node.nv.v, SkipWs(txt, k.pos))

\* an identifier from p to before e, as a key
IdentKey(txt, p, e) == Parsed(Node("string", VStr(SubSeq(txt, p, e - 1))), e)

\* a key: a string or an identifier
ParseKey(txt, p) ==
    IF txt[p] \in {squote, dquote} THEN ParseString(txt, p + 1, txt[p], <<>>)
    ELSE IF IsIdStart(txt[p]) THEN IdentKey(txt, p, RunEnd(txt, p, 1))
    ELSE NoParse

\* at p: a member or the closing brace
MembersAt(txt, p, pairs) ==
    IF p > Len(txt) THEN NoParse
    ELSE IF txt[p] = 125 THEN Parsed(Node("object", pairs), p + 1)
    ELSE MemberColon(txt, pairs, ParseKey(txt, p))

\* after '{' or ',': a member or the closing brace
ParseMembers(txt, p0, pairs) == MembersAt(txt, SkipWs(txt, p0), pairs)

\* after an element, at p: a comma and more elements, or the closing bracket
ElementNext(txt, els, p) ==
    IF p > Len(txt) THEN NoParse
    ELSE IF txt[p] = 44 THEN ParseElements(txt, p + 1, els)
    ELSE IF txt[p] = 93 THEN Parsed(Node("array", els), p + 1)
    ELSE NoParse

\* the element v, parsed
ElementEnd(txt, els, v) ==
    IF ~v.ok THEN NoParse
    ELSE ElementNext(txt, Append(els, v.node), SkipWs(txt, v.pos))

\* at p: an element or the closing bracket
ElementsAt(txt, p, els) ==
    IF p > Len(txt) THEN NoParse
    ELSE IF txt[p] = 93 THEN Parsed(Node("array", els), p + 1)
    ELSE ElementEnd(txt, els, ParseValue(txt, p))

\* after '[' or ',': an element or the closing bracket
ParseElements(txt, p0, els) == ElementsAt(txt, SkipWs(txt, p0), els)

\* the word w that ends before e: a constant or a number literal
ParseWord(w, e) ==
    IF w = NullText THEN Parsed(Node("null", VNull), e)
    ELSE IF w = TrueText THEN Parsed(Node("true", VBool(TRUE)), e)
    ELSE IF w = FalseText THEN Parsed(Node("false", VBool(FALSE)), e)
    ELSE IF IsNumberLiteral(w) THEN Parsed(Node("number", w), e)
    ELSE NoParse

\* the word from p to before e
WordAt(txt, p, e) == ParseWord(SubSeq(txt, p, e - 1), e)

ParseValue(txt, p) ==
    IF p > Len(txt) THEN NoParse
    ELSE IF txt[p] = 123 THEN ParseMembers(txt, p + 1, <<>>)
    ELSE IF txt[p] = 91 THEN ParseElements(txt, p + 1, <<>>)
    ELSE IF txt[p] \in {squote, dquote} THEN ParseString(txt, p + 1, txt[p], <<>>)
    ELSE WordAt(txt, p, RunEnd(txt, p, 2))

\* the document's value r, parsed: nothing but white space may follow
ParseEnd(txt, r) ==
    IF r.ok /\ SkipWs(txt, r.pos) = Len(txt) + 1 THEN r ELSE NoParse

\* Parser(s, '<string>').parse(): the tree, or an error
Parse(txt) == ParseEnd(txt, ParseValue(txt, SkipWs(txt, 1)))

(***************************************************************************)
(* _Decoder.loads                                                          *)
(***************************************************************************)
\* the number of bytes of the character that starts with byte b, 0 for none
Utf8Len(b) ==
    IF b < 128 THEN 1
    ELSE IF b >= 194 /\ b < 224 THEN 2
    ELSE IF b >= 224 /\ b < 240 THEN 3
    ELSE 0

\* the character of the n bytes b starts with
Utf8Char(b, n) ==
    IF n = 1 THEN b[1]
    ELSE IF n = 2 THEN (b[1] - 192) * 64 + (b[2] - 128)
    ELSE (b[1] - 224) * 4096 + (b[2] - 128) * 64 + (b[3] - 128)

\* c before the decoded rest
Utf8Cons(c, rest) == IF rest = <<>> THEN <<>> ELSE << <<c>> \o rest[1] >>

RECURSIVE Utf8Decode(_)
RECURSIVE Utf8Next(_, _)

Utf8Next(b, n) ==
    IF n = 0 \/ Len(b) < n \/ (\E j \in 2..n : b[j] < 128 \/ b[j] >= 192)
    THEN <<>>
    ELSE Utf8Cons(Utf8Char(b, n), Utf8Decode(SubSeq(b, n + 1, Len(b))))

\* bytes.decode('utf-8'): <<>> stands for UnicodeDecodeError, else <<text>>
Utf8Decode(b) == IF b = <<>> THEN << <<>> >> ELSE Utf8Next(b, Utf8Len(b[1]))

\* ast, err = parser.parse(); if err: raise ValueError(err);
\* return self.walk(ast)
loads_parsed(dcfg, r) ==
    IF ~r.ok THEN Fail("ValueError:syntax") ELSE walk(dcfg, r.node)

\* dec is the text after s.decode(self.encoding), if s was bytes
loads_text(dcfg, dec) ==
    IF dec = <<>> THEN Fail("UnicodeDecodeError")
    ELSE IF dec[1] = <<>> THEN Fail("ValueError:empty")
    ELSE loads_parsed(dcfg, Parse(dec[1]))

\* s is [bytes, data]: a str, or bytes to decode first
loads(dcfg, s) ==
    loads_text(dcfg, IF s.bytes THEN Utf8Decode(s.data) ELSE <<s.data>>)

(***************************************************************************)
(* json.dumps(obj) of the standard library with its default options, the   *)
(* strict-format serializer the module-level dumps delegates to.           *)
(***************************************************************************)
RECURSIVE Zeros(_)
Zeros(n) == IF n <= 0 THEN <<>> ELSE <<48>> \o Zeros(n - 1)

\* repr of a finite float m * 10^e (positional notation)
FloatText(m, e) ==
    LET ds == NatText(IF m < 0 THEN 0 - m ELSE m)
        body == IF e >= 0 THEN ds \o Zeros(e) \o <<46, 48>>
                ELSE IF Len(ds) > 0 - e
                THEN SubSeq(ds, 1, Len(ds) + e) \o <<46>>
                         \o SubSeq(ds, Len(ds) + e + 1, Len(ds))
                ELSE <<48, 46>> \o Zeros(0 - e - Len(ds)) \o ds
    IN  IF m < 0 THEN <<45>> \o body ELSE body

json_float(f) ==
    IF f.k = "nan" THEN NaNText
    ELSE IF f.k = "inf" THEN InfinityText
    ELSE IF f.k = "ninf" THEN <<45>> \o InfinityText
    ELSE FloatText(f.m, f.e)

json_char(c) ==
    IF c = dquote THEN <<bslash, dquote>>
    ELSE IF c = bslash THEN <<bslash, bslash>>
    ELSE IF c = 10 THEN <<bslash, 110>>
    ELSE IF c = 13 THEN <<bslash, 114>>
    ELSE IF c = 9 THEN <<bslash, 116>>
    ELSE IF c = 8 THEN <<bslash, 98>>
    ELSE IF c = 12 THEN <<bslash, 102>>
    ELSE IF 32 <= c /\ c <= 126 THEN <<c>>
    ELSE UEscape(c)

RECURSIVE json_chars(_)
json_chars(s) == IF s = <<>> THEN <<>> ELSE json_char(Head(s)) \o json_chars(Tail(s))

json_str(s) == <<dquote>> \o json_chars(s) \o <<dquote>>

\* a dict key as the text json makes of it
json_key(k) ==
    IF k.t = "str" THEN k.v
    ELSE IF k.t = "int" THEN IntText(k.v)
    ELSE IF k.t = "bool" THEN (IF k.v THEN TrueText ELSE FalseText)
    ELSE IF k.t = "float" THEN json_float(k.v)
    ELSE NullText

JRet(s) == [ok |-> TRUE, s |-> s, err |-> ""]
JRaise(e) == [ok |-> FALSE, s |-> <<>>, err |-> e]

RECURSIVE json_rec(_, _, _)
RECURSIVE json_items(_, _, _, _, _)

\* the i-th entry of container c, r the text of its value
json_item(heap, c, i, s, markers, r) ==
    IF ~r.ok THEN r
    ELSE json_items(heap, c, i + 1,
                    s \o (IF i > 1 THEN <<44, 32>> ELSE <<>>)
                      \o (IF c.t = "dict"
                          THEN json_str(json_key(c.keys[i])) \o <<58, 32>>
                          ELSE <<>>)
                      \o r.s,
                    markers)

\* the entries of container c from the i-th on, appended to s
json_items(heap, c, i, s, markers) ==
    IF i > Len(IF c.t = "list" THEN c.els ELSE c.keys)
    THEN JRet(s \o <<IF c.t = "list" THEN 93 ELSE 125>>)
    ELSE IF c.t = "dict" /\ c.keys[i].t \notin valid_key_types
    THEN JRaise("TypeError:key")
    ELSE json_item(heap, c, i, s, markers,
                   json_rec(heap, IF c.t = "list" THEN c.els[i] ELSE c.vals[i],
                            markers))

json_rec(heap, obj, markers) ==
    IF TypeOf(heap, obj) = "str" THEN JRet(json_str(obj.v))
    ELSE IF TypeOf(heap, obj) = "null" THEN JRet(NullText)
    ELSE IF TypeOf(heap, obj) = "bool"
    THEN JRet(IF obj.v THEN TrueText ELSE FalseText)
    ELSE IF TypeOf(heap, obj) = "int" THEN JRet(IntText(obj.v))
    ELSE IF TypeOf(heap, obj) = "float" THEN JRet(json_float(obj.v))
    ELSE IF TypeOf(heap, obj) \in {"list", "dict"}
    THEN IF obj.v \in markers THEN JRaise("ValueError:circular")
         ELSE json_items(heap, heap[obj.v], 1,
                         <<IF TypeOf(heap, obj) = "list" THEN 91 ELSE 123>>,
                         markers \cup {obj.v})
    ELSE JRaise("TypeError:default")

(***************************************************************************)
(* The module-level dumps(obj, **kwargs).  compact and as_json are <<>>    *)
(* when the caller does not pass them and <<b>> when it passes b.          *)
(***************************************************************************)
\* as_json with compact itself as its default, not its negation
as_json_like_compact(compact, as_json) ==
    LET c == IF compact = <<>> THEN FALSE ELSE compact[1]
    IN  IF as_json = <<>> THEN c ELSE as_json[1]

\* compact = kwargs.pop('compact', False)
\* as_json = kwargs.pop('as_json', not compact)
as_json_of(compact, as_json) ==
    LET c == IF compact = <<>> THEN FALSE ELSE compact[1]
    IN  IF as_json = <<>> THEN ~c ELSE as_json[1]

\* what a serializer gave, and which one it was
Via(via, r) == [via |-> via, ok |-> r.ok, s |-> r.s, err |-> r.err]

\* if as_json: return json.dumps(obj, **kwargs)
\* else: return _Encoder(**kwargs).dumps(obj)
dumps(heap, obj, compact, as_json) ==
    IF as_json_of(compact, as_json)
    THEN Via("json.dumps", json_rec(heap, obj, {}))
    ELSE Via("_Encoder", dumps_rec(DefaultConfig, heap, obj, {}, 0, 1))

(***************************************************************************)
(* The inputs: encoder options and value graphs.                           *)
(***************************************************************************)
\* Largest number of options a caller sets to something else than the default.
MaxNonDefault == 2
\* Longest string value.
MaxStrLen == 2

\* indent is <<>> for None and <<n>> for a width; default is "none" or the
\* name of the caller's hook
AllConfigs ==
    [skipkeys : BOOLEAN, ensure_ascii : BOOLEAN, check_circular : BOOLEAN,
     allow_nan : BOOLEAN, indent : {<<>>, <<2>>},
     separators : {DefaultSeparators, TightSeparators},
     default : {"none", "hook"}, sort_keys : BOOLEAN]

NonDefault(c) ==
    Cardinality({f \in DOMAIN DefaultConfig : c[f] # DefaultConfig[f]})

Configs == {c \in AllConfigs : NonDefault(c) <= MaxNonDefault}

\* the characters strings are made of: ' " \ a e-acute newline
Alphabet == {squote, dquote, bslash, 97, 233, 10}

Strings == UNION {[1..n -> Alphabet] : n \in 0..MaxStrLen}

Floats == {VFloat("fin", 15, -1), VFloat("fin", 0, 0), VFloat("nan", 0, 0),
           VFloat("inf", 0, 0), VFloat("ninf", 0, 0)}

\* values that are no containers
Atoms == {VNull, VBool(TRUE), VBool(FALSE), VInt(0), VInt(7), VInt(-12),
          VOther("tuple")}
             \cup Floats \cup {VStr(s) : s \in Strings}

Ids == 1..NObj

\* what a container of the value graphs holds
Elems == {VInt(7)} \cup {VRef(i) : i \in Ids}

\* the keys of the dicts: 'b', 'a c', 1 and a tuple
Keys == {VStr(<<98>>), VStr(<<97, 32, 99>>), VInt(1), VOther("tuple")}

SeqsUpTo(S, n) == UNION {[1..m -> S] : m \in 0..n}

IsInjective(q) == \A i, j \in 1..Len(q) : q[i] = q[j] => i = j

Containers(n) ==
    {VList(els) : els \in SeqsUpTo(Elems, n)}
        \cup UNION {{VDict(ks, vs) : vs \in [1..Len(ks) -> Elems]} :
                       ks \in {q \in SeqsUpTo(Keys, n) : IsInjective(q)}}

\* the objects a container refers to
RefsOf(c) ==
    LET q == IF c.t = "list" THEN c.els ELSE c.vals
    IN  {q[i].v : i \in {j \in 1..Len(q) : q[j].t = "ref"}}

RECURSIVE ReachFrom(_, _, _)
ReachFrom(heap, frontier, done) ==
    IF frontier \subseteq done THEN done
    ELSE LET next == done \cup frontier
         IN  ReachFrom(heap, UNION {RefsOf(heap[i]) : i \in next}, next)

\* the objects reachable from an element
Reachable(heap, obj) ==
    IF obj.t = "ref" THEN ReachFrom(heap, {obj.v}, {}) ELSE {}

\* the caller's default hook: the substitute it returns for a value the
\* encoder does not know
HookSubstitute(obj) == VNull

EmptyHeap == [i \in Ids |-> VList(<<>>)]

\* The value graphs: object 1 is any container of up to MaxLen entries, the
\* other objects hold up to MaxLen - 1 entries, and an object that object 1
\* does not reach is left empty.
Heaps ==
    {h \in [Ids -> Containers(MaxLen)] :
        /\ \A i \in Ids \ {1} : Len(IF h[i].t = "list" THEN h[i].els ELSE h[i].vals)
                                    <= MaxLen - 1
        /\ \A i \in Ids \ Reachable(h, VRef(1)) : h[i] = VList(<<>>)}

(***************************************************************************)
(* The state: one _Encoder object and its caller.                          *)
(***************************************************************************)
VARIABLES
    enc,            \* the encoder's options (self.skipkeys, ...)
    seen_objs,      \* self._seen_objs
    indent_level,   \* self._indent_level
    pc,             \* the caller: "idle" or "returned"
    call            \* the call that returned last, with its result

vars == <<enc, seen_objs, indent_level, pc, call>>

NoCall == [op |-> "none"]

Init ==
    /\ enc = DefaultConfig
    /\ seen_objs = {}
    /\ indent_level = 0
    /\ pc = "idle"
    /\ call = NoCall

\* _Encoder(**kwargs)
NewEncoder(cfg) ==
    /\ pc = "idle"
    /\ enc' = cfg
    /\ seen_objs' = {}
    /\ indent_level' = 0
    /\ UNCHANGED <<pc, call>>

\* encoder.dumps(obj), the top-level call: res is what it returned or
\* raised, seen0 the _seen_objs it started with
EncoderDumps(heap, obj) ==
    /\ pc = "idle"
    /\ call' = [op |-> "Encoder.dumps", heap |-> heap, obj |-> obj,
                seen0 |-> seen_objs,
                res |-> dumps_rec(enc, heap, obj, seen_objs, indent_level, 1)]
    /\ call'.res.lvl <= MaxIndentLevel
    /\ seen_objs' = call'.res.seen
    /\ indent_level' = call'.res.lvl
    /\ pc' = "returned"
    /\ UNCHANGED enc

\* the caller takes the result
Collect ==
    /\ pc = "returned"
    /\ pc' = "idle"
    /\ call' = NoCall
    /\ UNCHANGED <<enc, seen_objs, indent_level>>

\* the caller is idle: it makes a new encoder or calls dumps on the one it has
Next ==
    \/ pc = "idle" /\ \E cfg \in Configs : NewEncoder(cfg)
    \/ pc = "idle" /\ \E a \in Atoms : EncoderDumps(EmptyHeap, a)
    \/ pc = "idle" /\ \E h \in Heaps : EncoderDumps(h, VRef(1))
    \/ Collect

Spec == Init /\ [][Next]_vars

(***************************************************************************)
(* The encoder on strings alone.                                           *)
(***************************************************************************)
NextStrings ==
    \/ pc = "idle" /\ \E cfg \in Configs : NewEncoder(cfg)
    \/ pc = "idle" /\ \E str \in Strings : EncoderDumps(EmptyHeap, VStr(str))
    \/ Collect

SpecStrings == Init /\ [][NextStrings]_vars

(***************************************************************************)
(* The decoder's walk over the trees the parser hands it.                  *)
(***************************************************************************)
\* Longest number literal.
MaxLitLen == 4

DecoderConfigs ==
    [parse_float : {"default", "hook"}, parse_int : {"default", "hook"},
     parse_constant : {"default", "hook"}, object_hook : {"default", "hook"},
     object_pairs_hook : {"default", "hook"}]

\* the characters number literals are made of: 0 1 x X A e E . -
LitAlphabet == {48, 49, 120, 88, 65, 101, 69, 46, 45}

\* 0x1A 0X1a 3 3.0 3e2 and the signed constants
ExampleLiterals ==
    {<<48, 120, 49, 65>>, <<48, 88, 49, 97>>, <<51>>, <<51, 46, 48>>,
     <<51, 101, 50>>, InfinityText, <<45>> \o InfinityText,
     <<43>> \o InfinityText, NaNText, <<45>> \o NaNText}

\* the literals the parser lets through
Literals ==
    {lit \in UNION {[1..n -> LitAlphabet] : n \in 1..MaxLitLen} :
        IsNumberLiteral(lit)} \cup ExampleLiterals

NumberNodes == {Node("number", lit) : lit \in Literals}

LeafNodes ==
    {Node("null", VNull), Node("true", VBool(TRUE)), Node("false", VBool(FALSE)),
     Node("string", VStr(<<97>>)), Node("number", <<51>>),
     Node("number", <<48, 120, 49, 65>>), Node("number", <<49, 101>>)}

\* arrays and objects (keys a and b, a key may come twice) of leaves
Nodes ==
    NumberNodes \cup LeafNodes
        \cup {Node("array", els) : els \in SeqsUpTo(LeafNodes, 2)}
        \cup {Node("object", <<<<k[1], n[1]>>, <<k[2], n[2]>>>>) :
                 k \in {<<97>>, <<98>>} \X {<<97>>, <<98>>},
                 n \in LeafNodes \X LeafNodes}

\* _Decoder(**kwargs).walk(ast)
Walk(dcfg, node) ==
    /\ pc = "idle"
    /\ call' = [op |-> "walk", dcfg |-> dcfg, node |-> node,
                res |-> walk(dcfg, node)]
    /\ pc' = "returned"
    /\ UNCHANGED <<enc, seen_objs, indent_level>>

NextDecoder ==
    \/ pc = "idle" /\ \E dcfg \in DecoderConfigs, node \in Nodes : Walk(dcfg, node)
    \/ Collect

SpecDecoder == Init /\ [][NextDecoder]_vars

(***************************************************************************)
(* The module-level functions dumps and loads.                             *)
(***************************************************************************)
\* value graphs of one container
FlatHeaps ==
    {[i \in Ids |-> IF i = 1 THEN c ELSE VList(<<>>)] : c \in Containers(MaxLen)}

\* an option the caller passes or not
OptBool == {<<>>, <<TRUE>>, <<FALSE>>}

\* documents: '' and b'', 'e-acute' in UTF-8, a cut byte sequence,
\* [0x1A, 3.0] and {a: 1, a: 2,}
Docs ==
    {[bytes |-> FALSE, data |-> <<>>], [bytes |-> TRUE, data |-> <<>>],
     [bytes |-> TRUE, data |-> <<39, 195, 169, 39>>],
     [bytes |-> TRUE, data |-> <<39, 195, 39>>],
     [bytes |-> FALSE, data |-> <<91, 48, 120, 49, 65, 44, 32, 51, 46, 48, 93>>],
     [bytes |-> FALSE,
      data |-> <<123, 97, 58, 32, 49, 44, 32, 97, 58, 32, 50, 44, 125>>]}

\* dumps(obj, compact=..., as_json=...)
Dumps(heap, obj, compact, as_json) ==
    /\ pc = "idle"
    /\ call' = [op |-> "dumps", heap |-> heap, obj |-> obj,
                compact |-> compact, as_json |-> as_json,
                res |-> dumps(heap, obj, compact, as_json)]
    /\ pc' = "returned"
    /\ UNCHANGED <<enc, seen_objs, indent_level>>

\* loads(s, **kwargs)
Loads(dcfg, s) ==
    /\ call' = [op |-> "loads", dcfg |-> dcfg, s |-> s, res |-> loads(dcfg, s)]
    /\ pc' = "returned"
    /\ UNCHANGED <<enc, seen_objs, indent_level>>

\* the caller decodes a document, or what dumps has just returned
NextModule ==
    \/ pc = "idle" /\ \E a \in Atoms, c, j \in OptBool : Dumps(EmptyHeap, a, c, j)
    \/ pc = "idle" /\ \E h \in FlatHeaps, c, j \in OptBool : Dumps(h, VRef(1), c, j)
    \/ pc = "idle" /\ \E dcfg \in DecoderConfigs, s \in Docs : Loads(dcfg, s)
    \/ /\ pc = "returned" /\ call.op = "dumps" /\ call.res.ok
       /\ Loads(DefaultDecoder, [bytes |-> FALSE, data |-> call.res.s])
    \/ Collect

SpecModule == Init /\ [][NextModule]_vars

(***************************************************************************)
(* Properties.  Encoded, Walked and Dumped are the states in which a call  *)
(* has just returned or raised; enc is then still the encoder the call ran *)
(* on.                                                                     *)
(***************************************************************************)
Encoded == pc = "returned" /\ call.op = "Encoder.dumps"
Walked == pc = "returned" /\ call.op = "walk"
Dumped == pc = "returned" /\ call.op = "dumps"

\* two calls end alike: the same text, or the same exception
SameOutcome(a, b) == a.ok = b.ok /\ a.s = b.s /\ a.err = b.err

\* the value graph under obj has a container that contains itself,
\* directly or transitively
Cyclic(heap, obj) ==
    \E i \in Reachable(heap, obj) : i \in ReachFrom(heap, RefsOf(heap[i]), {})

\* every key of every dict under obj is a string
StringKeys(heap, obj) ==
    \A i \in Reachable(heap, obj) :
        heap[i].t = "dict" => \A j \in 1..Len(heap[i].keys) : heap[i].keys[j].t = "str"

\* a value built only from null, booleans, finite numbers, strings, mappings
\* (with string keys) and sequences
Plain(heap, obj) ==
    IF obj.t = "ref"
    THEN /\ ~Cyclic(heap, obj)
         /\ StringKeys(heap, obj)
         /\ \A i \in Reachable(heap, obj) :
                LET q == IF heap[i].t = "list" THEN heap[i].els ELSE heap[i].vals
                IN  \A j \in 1..Len(q) : q[j].t \in {"int", "ref"}
    ELSE \/ obj.t \in {"null", "bool", "int", "str"}
         \/ obj.t = "float" /\ obj.v.k = "fin"

\* the value the decoder would have to give back: the tree under obj, its
\* containers written out in place (for a graph that is not cyclic)
RECURSIVE Unfold(_, _)
Unfold(heap, obj) ==
    IF obj.t # "ref" THEN obj
    ELSE IF heap[obj.v].t = "list"
    THEN VList([j \in 1..Len(heap[obj.v].els) |-> Unfold(heap, heap[obj.v].els[j])])
    ELSE VDict(heap[obj.v].keys,
               [j \in 1..Len(heap[obj.v].vals) |-> Unfold(heap, heap[obj.v].vals[j])])

\* decoding gave the value v
DecodesTo(d, v) == d.ok /\ d.v = v

\* C1: for every value v built only from null, booleans, finite numbers,
\* strings, mappings and sequences, encoding v with _Encoder.dumps succeeds
\* and decoding the text gives a value equal to v, the keys of a mapping in
\* their order.  Stated for a fresh encoder with the default options.
C1_RoundTrip ==
    (Encoded /\ enc = DefaultConfig /\ call.seen0 = {}
        /\ Plain(call.heap, call.obj))
    => /\ call.res.ok
       /\ DecodesTo(loads(DefaultDecoder, [bytes |-> FALSE, data |-> call.res.s]),
                    Unfold(call.heap, call.obj))

\* the finite float 1.5 handed to a fresh default encoder raises NameError:
\* there is no text to decode
C1_FiniteFloatNotEncoded ==
    /\ Encoded /\ enc = DefaultConfig /\ call.seen0 = {}
    /\ call.obj = VFloat("fin", 15, -1)
    /\ ~call.res.ok /\ call.res.err = "NameError:math"

\* C2: with check_circular on, encoding a container that contains itself,
\* directly or transitively, ends with the circular-reference error.  Stated
\* for a first call on an encoder and for graphs whose dict keys are strings,
\* so that no other error is due.
C2_CycleRaisesCircular ==
    (Encoded /\ enc.check_circular /\ call.seen0 = {} /\ call.obj.t = "ref"
        /\ Cyclic(call.heap, call.obj) /\ StringKeys(call.heap, call.obj))
    => (~call.res.ok /\ call.res.err = "ValueError:circular")

\* the list that is its own only element, encoded with indent = 2, raises
\* UnboundLocalError before the cycle is met
C2_CycleWithIndent ==
    /\ Encoded /\ enc.check_circular /\ enc.indent = <<2>> /\ call.seen0 = {}
    /\ call.obj = VRef(1) /\ call.heap[1] = VList(<<VRef(1)>>)
    /\ call.res.err = "UnboundLocalError:indent"

\* C3: with check_circular on, a container is in the tracking set only while
\* it is being encoded, so a value that reaches the same container through
\* two sibling branches and has no cycle is encoded successfully.  Stated for
\* a first call on a default encoder and graphs whose dict keys are strings.
C3_SiblingsEncode ==
    (Encoded /\ enc = DefaultConfig /\ call.seen0 = {} /\ call.obj.t = "ref"
        /\ ~Cyclic(call.heap, call.obj) /\ StringKeys(call.heap, call.obj))
    => call.res.ok

\* [x, x] with x an empty list, first call on a default encoder: the
\* circular-reference error, with x still in the tracking set
C3_SiblingsRejected ==
    /\ Encoded /\ enc = DefaultConfig /\ call.seen0 = {}
    /\ call.obj = VRef(1) /\ call.heap[1] = VList(<<VRef(2), VRef(2)>>)
    /\ call.heap[2] = VList(<<>>)
    /\ call.res.err = "ValueError:circular" /\ 2 \in seen_objs

\* C4: the tracking set is empty when each top-level call starts, and each
\* call ends as the same call on a new encoder with the same options would.
C4_TrackingPerCall ==
    Encoded =>
        /\ call.seen0 = {}
        /\ SameOutcome(call.res, dumps_rec(enc, call.heap, call.obj, {}, 0, 1))

\* a later call on the same encoder starts with the containers of an earlier
\* call in the tracking set and raises where a call made alone returns
C4_LeakedTracking ==
    /\ Encoded /\ call.seen0 # {}
    /\ call.res.err = "ValueError:circular"
    /\ dumps_rec(enc, call.heap, call.obj, {}, 0, 1).ok

\* the bare token of a float that is not finite
NonFiniteToken(k) ==
    IF k = "nan" THEN NaNText
    ELSE IF k = "inf" THEN InfinityText
    ELSE <<45>> \o InfinityText

\* C5: encoding NaN, +Infinity or -Infinity fails with the non-finite-number
\* error when allow_nan is false and returns the token NaN, Infinity or
\* -Infinity when it is true; every finite float is encoded and never fails.
C5_FloatEncoding ==
    (Encoded /\ call.obj.t = "float")
    => IF call.obj.v.k = "fin" THEN call.res.ok
       ELSE IF enc.allow_nan
       THEN call.res.ok /\ call.res.s = NonFiniteToken(call.obj.v.k)
       ELSE ~call.res.ok /\ call.res.err = "ValueError:nonfinite"

\* NaN with allow_nan on: NameError, no token
C5_NaNNotEncoded ==
    /\ Encoded /\ enc.allow_nan /\ call.obj = VFloat("nan", 0, 0)
    /\ ~call.res.ok /\ call.res.err = "NameError:math"

\* the key types a mapping may have
PermittedKeyTypes == {"str", "int", "float", "bool", "null"}

\* the dict d from its i-th entry on, without the entries whose key is of no
\* permitted type
RECURSIVE ValidEntries(_, _)
ValidEntries(d, i) ==
    IF i > Len(d.keys) THEN VDict(<<>>, <<>>)
    ELSE IF d.keys[i].t \in PermittedKeyTypes
    THEN VDict(<<d.keys[i]>> \o ValidEntries(d, i + 1).keys,
               <<d.vals[i]>> \o ValidEntries(d, i + 1).vals)
    ELSE ValidEntries(d, i + 1)

\* C6: encoding a mapping whose keys are all of a permitted type renders
\* them; with a key of another type the call fails with the
\* unsupported-key-type error when skipkeys is false, and when skipkeys is
\* true the text is that of the same mapping without those entries.  Stated
\* for a first call, a dict of integers, no indent and no sorting.
C6_KeyValidation ==
    (Encoded /\ call.seen0 = {} /\ enc.indent = <<>> /\ ~enc.sort_keys
        /\ call.obj = VRef(1) /\ call.heap[1].t = "dict"
        /\ \A j \in 1..Len(call.heap[1].vals) : call.heap[1].vals[j].t = "int")
    => IF \A j \in 1..Len(call.heap[1].keys) :
              call.heap[1].keys[j].t \in PermittedKeyTypes
       THEN call.res.ok
       ELSE IF ~enc.skipkeys
       THEN ~call.res.ok /\ call.res.err = "TypeError:key"
       ELSE SameOutcome(call.res,
                        dumps_rec(enc,
                                  [call.heap EXCEPT ![1] = ValidEntries(call.heap[1], 1)],
                                  VRef(1), {}, 0, 1))

\* {'b': 7, (a tuple): 7} with skipkeys on: the separator after b stays
C6_DanglingSeparator ==
    /\ Encoded /\ enc.skipkeys /\ call.seen0 = {}
    /\ call.obj = VRef(1)
    /\ call.heap[1] = VDict(<<VStr(<<98>>), VOther("tuple")>>, <<VInt(7), VInt(7)>>)
    /\ call.res.ok /\ call.res.s = <<123, 98, 58, 32, 55, 44, 32, 125>>

\* C7: for a value of a type the encoder does not know, the call returns the
\* encoding of the substitute the configured default hook returns; with no
\* hook configured it fails with the unsupported-value-type error.
C7_DefaultHook ==
    (Encoded /\ call.obj.t = "other")
    => IF enc.default = "hook"
       THEN SameOutcome(call.res,
                        dumps_rec(enc, call.heap, HookSubstitute(call.obj), {}, 0, 1))
       ELSE ~call.res.ok /\ call.res.err = "TypeError:default"

\* a hook is configured and the value is a tuple: TypeError, the hook was
\* not asked
C7_HookNotAsked ==
    /\ Encoded /\ enc.default = "hook" /\ call.obj = VOther("tuple")
    /\ ~call.res.ok /\ call.res.err = "TypeError:default"

\* how often the character c stands in s
Count(c, s) == Cardinality({i \in 1..Len(s) : s[i] = c})

\* how many characters of s the encoder writes as \uXXXX
NonPrintable(s) == Cardinality({i \in 1..Len(s) : ~(32 <= s[i] /\ s[i] < 128)})

\* a text without its first and its last character
Interior(out) == SubSeq(out, 2, Len(out) - 1)

\* out is s between two quotes q, the quotes of the other kind written as
\* they are: there are as many of them as in s, and no backslash more than
\* s has and than the escapes of the remaining characters bring (with
\* ensure_ascii: one per \uXXXX and one per escaped quote q)
Quoted(cfg, s, out, q, other) ==
    /\ Len(out) >= 2 /\ out[1] = q /\ out[Len(out)] = q
    /\ Count(other, Interior(out)) = Count(other, s)
    /\ Count(bslash, Interior(out)) =
           Count(bslash, s)
               + (IF cfg.ensure_ascii THEN NonPrintable(s) + Count(q, s) ELSE 0)
    /\ (NonPrintable(s) = 0 /\ Count(q, s) = 0) => Interior(out) = s

\* C8: a string without a single quote is encoded between single quotes,
\* its double quotes not escaped; a string with a single quote is encoded
\* between double quotes, its single quotes not escaped.
C8_QuoteSelection ==
    (Encoded /\ call.obj.t = "str")
    => /\ call.res.ok
       /\ IF Count(squote, call.obj.v) = 0
          THEN Quoted(enc, call.obj.v, call.res.s, squote, dquote)
          ELSE Quoted(enc, call.obj.v, call.res.s, dquote, squote)

\* the string of a single quote and a double quote has been encoded with
\* ensure_ascii on: between double quotes, the single quote as it is
C8_BothQuotesEncoded ==
    /\ Encoded /\ enc.ensure_ascii
    /\ call.obj = VStr(<<squote, dquote>>)
    /\ call.res.ok /\ call.res.s = <<dquote, squote, bslash, dquote, dquote>>

\* the literal has the 0x / 0X prefix
HasHexPrefix(lit) == StartsWith(lit, <<48, 120>>) \/ StartsWith(lit, <<48, 88>>)

\* the literal has a '.' or an exponent marker e / E
HasFloatMark(lit) == \E i \in 1..Len(lit) : lit[i] \in {46, 101, 69}

\* the literal is Infinity or NaN, with or without a sign
IsConstantToken(lit) == Unsigned(lit) \in {InfinityText, NaNText}

\* the parser a number literal is for, and the base it is given
ParserFor(lit) ==
    IF HasHexPrefix(lit) THEN "parse_int"
    ELSE IF HasFloatMark(lit) THEN "parse_float"
    ELSE IF IsConstantToken(lit) THEN "parse_constant"
    ELSE "parse_int"

BaseFor(lit) == IF HasHexPrefix(lit) THEN <<16>> ELSE <<>>

C10_RelaxedByDefault ==
    Dumped => (call.res.via = "json.dumps" <=> call.compact = <<TRUE>>)

\* C10 amended: dumps delegates to json.dumps when as_json is passed true
\* and, as_json not passed, unless compact is passed true; it uses the
\* relaxed-format _Encoder when as_json is passed false and, as_json not
\* passed, when compact is passed true.  The outcome is that serializer's.
C10_StrictByDefault ==
    Dumped =>
        IF call.as_json = <<FALSE>> \/ (call.as_json = <<>> /\ call.compact = <<TRUE>>)
        THEN /\ call.res.via = "_Encoder"
             /\ SameOutcome(call.res,
                            dumps_rec(DefaultConfig, call.heap, call.obj, {}, 0, 1))
        ELSE /\ call.res.via = "json.dumps"
             /\ SameOutcome(call.res, json_rec(call.heap, call.obj, {}))

\* dumps([7, 7], compact=True) went through the _Encoder: [7, 7]
C10_CompactUsesEncoder ==
    /\ Dumped /\ call.compact = <<TRUE>> /\ call.as_json = <<>>
    /\ call.obj = VRef(1) /\ call.heap[1] = VList(<<VInt(7), VInt(7)>>)
    /\ call.res.via = "_Encoder" /\ call.res.ok
    /\ call.res.s = <<91, 55, 44, 32, 55, 93>>

=============================================================================
